---- MODULE Spec2Model ----
(***************************************************************************)
(* Bounded-concurrency batch engine of BrainRH: the three asyncio batch    *)
(* entry points                                                            *)
(*   lib/parallel_engine.py   parse_cvs_parallel_async          ("parse")  *)
(*   must_have_parallel.py    filter_cvs_by_must_have_parallel  ("must")   *)
(*   nice_have_parallel.py    find_nice_have_missing_parallel   ("nice")   *)
(* with their RateLimiter, asyncio.Semaphore, module-level inflight        *)
(* counters, per-item retry loop and as_completed collection loop.         *)
(*                                                                         *)
(* Durations are counted in quarters of a second, so that                  *)
(* DEFAULT_BACKOFF_S = 1.0 s is 4 units and delay / 4 is a whole number.   *)
(***************************************************************************)
EXTENDS Integers, Sequences, FiniteSets, TLC

\* ---------------------------------------------------------------- bounds
\* the size of a batch call: 2 * items + retries + min_interval is at most
\* MaxLoad (an item weighs double, every item multiplying the
\* interleavings), so that a call has few items with several retries or a
\* long interval, or more items with fewer of those
MaxLoad == 6
MaxConc == 2

\* must_have_parallel.py:22 DEFAULT_BACKOFF_S = 1.0 (seconds), in quarters
DEFAULT_BACKOFF_S == 4

Kinds == {"parse", "must", "nice"}

\* values the module globals can hold when a batch is called: a fresh
\* process (0, 0) or what an earlier batch left behind
StaleCounters == {<<0, 0>>, <<-1, 1>>, <<0, 2>>}

None == [kind |-> "none", attempt |-> 0]

VARIABLES
    \* arguments of the batch call
    kind, n, concurrency, retries, min_interval, criteria_empty,
    \* batch coroutine
    bpc, sem,
    \* RateLimiter
    lock, since_last, grants, last_gap,
    \* module globals _inflight_api_calls, _peak_inflight
    inflight_api_calls, peak_inflight,
    \* item tasks
    pc, attempt, delay, last_err, sleep_d, wait, outcome,
    \* collection loop
    done_queue, completed, progress, results, accepted, rejected,
    success_count, failed_count, ret,
    \* a second batch of the same kind running in the same process
    ob_pc, ob_calls,
    \* the worker threads of the batch's ThreadPoolExecutor
    executing, abandoned, work_queue,
    \* the matching pipeline of api/routers/matching.py
    mpc, sims, nice_have, top_n_rerank, filtered_cvs, nice_have_map,
    scored_cvs, reranked_cvs, summary, built,
    \* the semaphore and the worker pool of a large batch, by head count
    gpc, pool_items, pool_concurrency, max_workers, pool_sem, pool_waiting,
    pool_inside,
    \* one call of detect_gaps_and_overlaps
    apc, experiences, now_day, clock, parsed_exps, gaps, overlaps,
    \* the nice-have multiplier computed for one count and one factor
    missing_count, malus_factor, malus_lib, malus_inline

cfg == <<kind, n, concurrency, retries, min_interval, criteria_empty>>
lim == <<lock, since_last, grants, last_gap>>
trk == <<inflight_api_calls, peak_inflight>>
task == <<pc, attempt, delay, last_err, sleep_d, wait, outcome>>
coll == <<done_queue, completed, progress, results, accepted, rejected,
          success_count, failed_count, ret>>
other == <<ob_pc, ob_calls>>
exe == <<executing, abandoned, work_queue>>
batch == <<cfg, bpc, sem, lim, trk, task, coll, other, exe>>
match == <<mpc, sims, nice_have, top_n_rerank, filtered_cvs, nice_have_map,
           scored_cvs, reranked_cvs, summary, built>>
gate == <<gpc, pool_items, pool_concurrency, max_workers, pool_sem,
          pool_waiting, pool_inside>>
tline == <<apc, experiences, now_day, clock, parsed_exps, gaps, overlaps>>
bonus == <<missing_count, malus_factor, malus_lib, malus_inline>>
vars == <<batch, match, gate, tline, bonus>>

Items == 1..n

Max(a, b) == IF a > b THEN a ELSE b
Min(a, b) == IF a < b THEN a ELSE b

NoRet == [kind |-> "none"]

\* no matching pipeline is running
MatchIdle ==
    /\ mpc = "off"
    /\ sims = <<>>
    /\ nice_have = 0
    /\ top_n_rerank = 1
    /\ filtered_cvs = <<>>
    /\ nice_have_map = <<>>
    /\ scored_cvs = <<>>
    /\ reranked_cvs = <<>>
    /\ summary = <<>>
    /\ built = NoRet

\* no large batch is running
GateIdle ==
    /\ gpc = "off"
    /\ pool_items = 0
    /\ pool_concurrency = 0
    /\ max_workers = 0
    /\ pool_sem = 0
    /\ pool_waiting = 0
    /\ pool_inside = 0

\* no timeline analysis is running
TimelineIdle ==
    /\ apc = "off"
    /\ experiences = <<>>
    /\ now_day = 1
    /\ clock = "same"
    /\ parsed_exps = <<>>
    /\ gaps = <<>>
    /\ overlaps = <<>>

\* no multiplier is being computed
BonusIdle ==
    /\ missing_count = 0
    /\ malus_factor = 0
    /\ malus_lib = NoRet
    /\ malus_inline = NoRet

\* the state before the batch function is called
BatchInit ==
    /\ kind \in Kinds
    /\ n \in 0..MaxLoad
    /\ concurrency \in 0..MaxConc
    /\ retries \in 0..MaxLoad
    /\ min_interval \in 1..MaxLoad
    /\ 2 * n + retries + min_interval <= MaxLoad
    /\ criteria_empty \in BOOLEAN
    /\ (kind = "parse" => ~criteria_empty)
    /\ bpc = "idle"
    /\ sem = 0
    /\ lock = FALSE
    /\ since_last = 0
    /\ grants = 0
    /\ last_gap = 0
    /\ \E c \in StaleCounters :
          /\ inflight_api_calls = c[1]
          /\ peak_inflight = c[2]
    /\ pc = [i \in Items |-> "none"]
    /\ attempt = [i \in Items |-> 0]
    /\ delay = [i \in Items |-> 0]
    /\ last_err = [i \in Items |-> None]
    /\ sleep_d = [i \in Items |-> 0]
    /\ wait = [i \in Items |-> 0]
    /\ outcome = [i \in Items |-> NoRet]
    /\ done_queue = <<>>
    /\ completed = 0
    /\ progress = <<>>
    /\ results = <<>>
    /\ accepted = <<>>
    /\ rejected = <<>>
    /\ success_count = 0
    /\ failed_count = 0
    /\ ret = NoRet
    /\ ob_pc = "idle"
    /\ ob_calls = 0
    /\ executing = [i \in Items |-> FALSE]
    /\ abandoned = 0
    /\ work_queue = <<>>

Init == BatchInit /\ MatchIdle /\ GateIdle /\ TimelineIdle /\ BonusIdle

\* ------------------------------------------------------- inflight tracker
\* _track_inflight_start: _inflight_api_calls += 1
TrackStartCalls(c) == c + 1

\* _track_inflight_start: if _inflight_api_calls > _peak_inflight: ...
TrackPeak(c, p) == IF c > p THEN c ELSE p

\* _track_inflight_end: _inflight_api_calls -= 1
TrackEndCalls(c) == c - 1

\* ------------------------------------------------------------ RateLimiter
\* wait = self.min_interval - (now - self._last); since_last is
\* now - self._last, kept only up to min_interval
LimiterWait == min_interval - since_last

\* variant: the grant decision is taken without the lock
LockFree_NoLock == TRUE

\* async with self._lock: the lock is free
LockFree == ~lock

\* ------------------------------------------------------- worker threads
\* loop.run_in_executor(executor, fn) hands a call to the pool of
\* max_workers threads: a free thread runs it at once, else it waits in the
\* executor's queue.  asyncio.wait_for cancels the awaiting future at the
\* deadline; a call that a thread is already running cannot be cancelled
\* and goes on running, abandoned, until the function returns.

\* max_workers = max(4, min(concurrency, 128))
MaxWorkers(c) == Max(4, Min(c, 128))

\* the calls running on worker threads
WorkersBusy == abandoned + Cardinality({j \in Items : executing[j]})

\* executor.submit for the call of item i
Submit(i) ==
    /\ IF WorkersBusy < MaxWorkers(concurrency)
       THEN /\ executing' = [executing EXCEPT ![i] = TRUE]
            /\ UNCHANGED work_queue
       ELSE /\ work_queue' = Append(work_queue, i)
            /\ UNCHANGED executing
    /\ UNCHANGED abandoned

\* the thread that ran the call of item i takes the next waiting call
WorkerDone(i) ==
    /\ IF work_queue # <<>>
       THEN /\ executing' = [executing EXCEPT ![i] = FALSE,
                                              ![Head(work_queue)] = TRUE]
            /\ work_queue' = Tail(work_queue)
       ELSE /\ executing' = [executing EXCEPT ![i] = FALSE]
            /\ UNCHANGED work_queue
    /\ UNCHANGED abandoned

\* the extraction of item i is over and its parse call is handed over
WorkerDoneThenSubmit(i) ==
    /\ IF work_queue # <<>>
       THEN /\ executing' = [executing EXCEPT ![i] = FALSE,
                                              ![Head(work_queue)] = TRUE]
            /\ work_queue' = Append(Tail(work_queue), i)
       ELSE UNCHANGED <<executing, work_queue>>
    /\ UNCHANGED abandoned

\* variant: the deadline stops the thread that runs the call
AbandonedAfterTimeout_Stopped(a) == a

\* the thread keeps running the call whose future was cancelled
AbandonedAfterTimeout(a) == a + 1

\* the deadline of the call of item i: a running call is abandoned, a
\* waiting one is cancelled
CancelCall(i) ==
    IF executing[i]
    THEN /\ abandoned' = AbandonedAfterTimeout(abandoned)
         /\ IF AbandonedAfterTimeout(abandoned) > abandoned \/ work_queue = <<>>
            THEN /\ executing' = [executing EXCEPT ![i] = FALSE]
                 /\ UNCHANGED work_queue
            ELSE /\ executing' = [executing EXCEPT ![i] = FALSE,
                                                   ![Head(work_queue)] = TRUE]
                 /\ work_queue' = Tail(work_queue)
    ELSE /\ work_queue' = SelectSeq(work_queue, LAMBDA j : j # i)
         /\ UNCHANGED <<executing, abandoned>>

\* ---------------------------------------------------------------- retries
\* variant: off by one in the retry test
HasAttemptsLeft_OffByOne(i) == attempt[i] <= retries

\* if attempt < retries
HasAttemptsLeft(i) == attempt[i] < retries

\* variant: jitter up to half of the delay
JitterMax_Half(d) == d \div 2

\* jitter = random.uniform(0, delay / 4)
JitterMax(d) == d \div 4

\* delay *= 2
NextDelay(d) == d * 2

\* asyncio.Semaphore(max(1, concurrency))
Permits == Max(1, concurrency)

\* variant: tasks run without waiting for a permit
SemAvailable_NoGate == TRUE

\* asyncio.Semaphore.acquire proceeds only with a free permit
SemAvailable == sem > 0

\* --------------------------------------------------------------- outcomes
Err(k, a) == [kind |-> k, attempt |-> a]

Outcome(ok, acc, manq, rat, e) ==
    [kind |-> kind, success |-> ok, accepted |-> acc, manquants |-> manq,
     rationale |-> rat, err |-> e]

\* variant of MustFailedAccepted below: a failed item is let through
\* what an item returns after retries + 1 failed attempts:
\*   parse: CVParseResult(success=False, error=last_err)
\*   must:  (cv, False, "[ERREUR apres N tentatives] last_err", ...)
\*   nice:  (cv, nice_have_list, last_err)
MustFailedAccepted_FailOpen == TRUE

MustFailedAccepted == FALSE

FailedOutcome(e) ==
    CASE kind = "parse" -> Outcome(FALSE, FALSE, "na", "none", e)
      [] kind = "must" -> Outcome(FALSE, MustFailedAccepted, "na", "ERREUR", e)
      [] OTHER -> Outcome(FALSE, FALSE, "all", "none", e)

\* what an item returns after a successful attempt; acc and manq are the
\* answers of decide_fn / find_fn
SuccessOutcome(acc, manq) ==
    CASE kind = "parse" -> Outcome(TRUE, FALSE, "na", "none", None)
      [] kind = "must" -> Outcome(TRUE, acc, "na", "llm", None)
      [] OTHER -> Outcome(TRUE, FALSE, manq, "none", None)

\* ------------------------------------------------------------ batch start
EmptyReturn(acc, res) ==
    [kind |-> "early", total |-> 0, success_count |-> 0, failed_count |-> 0,
     results |-> res, accepted |-> acc, rejected |-> <<>>, peak |-> 0]

AllItems == [i \in Items |-> i]

\* the call of the batch function up to its first suspension: the early
\* returns, else reset_inflight_tracking(), RateLimiter(qps),
\* Semaphore(max(1, concurrency)) and one task per item
Start ==
    /\ bpc = "idle"
    /\ IF kind = "parse" /\ n = 0
       THEN /\ ret' = EmptyReturn(<<>>, <<>>)
            /\ bpc' = "returned"
            /\ UNCHANGED <<sem, lim, trk, task>>
       ELSE IF kind # "parse" /\ criteria_empty
       THEN /\ ret' = IF kind = "must" THEN EmptyReturn(AllItems, <<>>)
                      ELSE EmptyReturn(<<>>, AllItems)
            /\ bpc' = "returned"
            /\ UNCHANGED <<sem, lim, trk, task>>
       ELSE /\ inflight_api_calls' = 0
            /\ peak_inflight' = 0
            /\ lock' = FALSE
            /\ since_last' \in 0..min_interval
            /\ UNCHANGED <<grants, last_gap>>
            /\ sem' = Permits
            /\ pc' = [i \in Items |-> "created"]
            /\ UNCHANGED <<attempt, delay, last_err, sleep_d, wait,
                           outcome>>
            /\ bpc' = "running"
            /\ UNCHANGED ret
    /\ UNCHANGED <<tline, bonus, match, gate, exe, cfg, done_queue, completed, progress, results, accepted,
                   rejected, success_count, failed_count, other>>

\* ------------------------------------------------------------- item tasks
\* Every coroutine of a batch runs on one event loop, so a step of the
\* model is the code between two suspension points of a task.

\* one(): async with sem, then the entry of the retry loop.  asyncio wakes
\* semaphore waiters in the order the tasks were created.
SemAcquire(i) ==
    /\ bpc = "running"
    /\ pc[i] = "created"
    /\ \A j \in Items : j < i => pc[j] # "created"
    /\ SemAvailable
    /\ sem' = sem - 1
    /\ pc' = [pc EXCEPT ![i] = "acquire"]
    /\ attempt' = [attempt EXCEPT ![i] = 0]
    /\ delay' = [delay EXCEPT ![i] = DEFAULT_BACKOFF_S]
    /\ UNCHANGED <<tline, bonus, match, gate, exe, cfg, bpc, lim, trk, last_err, sleep_d, wait,
                   outcome, coll, other>>

\* the end of RateLimiter.acquire, self._last = time.perf_counter(), and
\* the code that follows it up to the next suspension point:
\*   must, nice: await _track_inflight_start(), then the call is handed to
\*               the executor under asyncio.wait_for
\*   parse:      extract_text_from_file is handed to the executor
Grant(i) ==
    /\ grants' = grants + 1
    /\ last_gap' = since_last
    /\ since_last' = 0
    /\ IF kind = "parse"
       THEN /\ pc' = [pc EXCEPT ![i] = "extracting"]
            /\ UNCHANGED trk
       ELSE /\ pc' = [pc EXCEPT ![i] = "running"]
            /\ inflight_api_calls' = TrackStartCalls(inflight_api_calls)
            /\ peak_inflight' = TrackPeak(TrackStartCalls(inflight_api_calls),
                                          peak_inflight)
    /\ Submit(i)

\* await limiter.acquire(): take the lock, read the clock, then either
\* sleep inside the lock or grant at once
LimEnter(i) ==
    /\ pc[i] = "acquire"
    /\ LockFree
    /\ IF LimiterWait > 0
       THEN /\ lock' = TRUE
            /\ wait' = [wait EXCEPT ![i] = LimiterWait]
            /\ pc' = [pc EXCEPT ![i] = "lim_sleep"]
            /\ UNCHANGED <<since_last, grants, last_gap, trk, exe>>
       ELSE /\ Grant(i)
            /\ UNCHANGED <<lock, wait>>
    /\ UNCHANGED <<tline, bonus, match, gate, cfg, bpc, sem, attempt, delay, last_err, sleep_d,
                   outcome, coll, other>>

\* asyncio.sleep(wait) is over: grant and leave the lock
LimWake(i) ==
    /\ pc[i] = "lim_sleep"
    /\ wait[i] = 0
    /\ Grant(i)
    /\ lock' = FALSE
    /\ UNCHANGED <<tline, bonus, match, gate, cfg, bpc, sem, attempt, delay, last_err, sleep_d,
                   wait, outcome, coll, other>>

\* one quarter of a second passes on the limiter's clock
Tick ==
    /\ bpc = "running"
    /\ since_last < min_interval \/ \E i \in Items : wait[i] > 0
    /\ since_last' = Min(since_last + 1, min_interval)
    /\ wait' = [i \in Items |-> IF wait[i] > 0 THEN wait[i] - 1 ELSE 0]
    /\ UNCHANGED <<tline, bonus, match, gate, exe, cfg, bpc, sem, lock, grants, last_gap, trk, pc, attempt,
                   delay, last_err, sleep_d, outcome, coll, other>>

\* the item's task returns: async with sem is left, as_completed sees the
\* task, and the locals of _run_one are gone
Finish(i, o) ==
    /\ pc' = [pc EXCEPT ![i] = "done"]
    /\ outcome' = [outcome EXCEPT ![i] = o]
    /\ sem' = sem + 1
    /\ done_queue' = Append(done_queue, i)
    /\ attempt' = [attempt EXCEPT ![i] = 0]
    /\ delay' = [delay EXCEPT ![i] = 0]
    /\ last_err' = [last_err EXCEPT ![i] = None]
    /\ sleep_d' = [sleep_d EXCEPT ![i] = 0]

\* the two except clauses after their _track_inflight_end, and the code
\* after them: sleep delay + jitter when attempts are left, else return
\* the failed outcome
AfterAttemptFailed(i, e) ==
    IF HasAttemptsLeft(i)
    THEN /\ last_err' = [last_err EXCEPT ![i] = e]
         /\ \E jitter \in 0..JitterMax(delay[i]) :
               sleep_d' = [sleep_d EXCEPT ![i] = delay[i] + jitter]
         /\ pc' = [pc EXCEPT ![i] = "backoff"]
         /\ UNCHANGED <<outcome, sem, done_queue, attempt, delay>>
    ELSE Finish(i, FailedOutcome(e))

\* parse only: extract_text_from_file returned; await
\* _track_inflight_start(), then parse_cv_with_llm is handed to the
\* executor under asyncio.wait_for
ExtractOk(i) ==
    /\ kind = "parse"
    /\ pc[i] = "extracting"
    /\ executing[i]
    /\ WorkerDoneThenSubmit(i)
    /\ pc' = [pc EXCEPT ![i] = "running"]
    /\ inflight_api_calls' = TrackStartCalls(inflight_api_calls)
    /\ peak_inflight' = TrackPeak(TrackStartCalls(inflight_api_calls),
                                  peak_inflight)
    /\ UNCHANGED <<tline, bonus, match, gate, cfg, bpc, sem, lim, attempt, delay, last_err, sleep_d,
                   wait, outcome, coll, other>>

\* parse only: extract_text_from_file raised; except Exception runs
\* _track_inflight_end although no start was marked
ExtractFail(i) ==
    /\ kind = "parse"
    /\ pc[i] = "extracting"
    /\ executing[i]
    /\ WorkerDone(i)
    /\ inflight_api_calls' = TrackEndCalls(inflight_api_calls)
    /\ AfterAttemptFailed(i, Err("error", attempt[i] + 1))
    /\ UNCHANGED <<tline, bonus, match, gate, cfg, bpc, lim, peak_inflight, wait, completed, progress,
                   results, accepted, rejected, success_count, failed_count,
                   ret, other>>

\* the call returned in time: _track_inflight_end, return the result
CallOk(i) ==
    /\ pc[i] = "running"
    /\ executing[i]
    /\ WorkerDone(i)
    /\ inflight_api_calls' = TrackEndCalls(inflight_api_calls)
    /\ \E acc \in BOOLEAN, manq \in {"none", "some"} :
          /\ kind = "must" \/ ~acc
          /\ kind = "nice" \/ manq = "none"
          /\ Finish(i, SuccessOutcome(acc, IF kind = "nice" THEN manq
                                           ELSE "na"))
    /\ UNCHANGED <<tline, bonus, match, gate, cfg, bpc, lim, peak_inflight, wait, completed, progress,
                   results, accepted, rejected, success_count, failed_count,
                   ret, other>>

\* parse only: the call returned in time, _track_inflight_end ran, then
\* CV(cv=filename, **parsed_data) raised inside the try: except Exception
\* runs _track_inflight_end a second time
CallInvalid(i) ==
    /\ kind = "parse"
    /\ pc[i] = "running"
    /\ executing[i]
    /\ WorkerDone(i)
    /\ inflight_api_calls' = TrackEndCalls(TrackEndCalls(inflight_api_calls))
    /\ AfterAttemptFailed(i, Err("error", attempt[i] + 1))
    /\ UNCHANGED <<tline, bonus, match, gate, cfg, bpc, lim, peak_inflight, wait, completed, progress,
                   results, accepted, rejected, success_count, failed_count,
                   ret, other>>

\* asyncio.wait_for hit its deadline: except asyncio.TimeoutError
CallTimeout(i) ==
    /\ pc[i] = "running"
    /\ CancelCall(i)
    /\ inflight_api_calls' = TrackEndCalls(inflight_api_calls)
    /\ AfterAttemptFailed(i, Err("timeout", attempt[i] + 1))
    /\ UNCHANGED <<tline, bonus, match, gate, cfg, bpc, lim, peak_inflight, wait, completed, progress,
                   results, accepted, rejected, success_count, failed_count,
                   ret, other>>

\* the call raised: except Exception
CallFail(i) ==
    /\ pc[i] = "running"
    /\ executing[i]
    /\ WorkerDone(i)
    /\ inflight_api_calls' = TrackEndCalls(inflight_api_calls)
    /\ AfterAttemptFailed(i, Err("error", attempt[i] + 1))
    /\ UNCHANGED <<tline, bonus, match, gate, cfg, bpc, lim, peak_inflight, wait, completed, progress,
                   results, accepted, rejected, success_count, failed_count,
                   ret, other>>

\* ------------------------------- the processing functions of the engine
\* what the function handed to the batch makes of its remote call.
\* check_single_cv_must_have wraps the call in try / except Exception and
\* returns (False, "Erreur LLM: ...") instead of raising;
\* _find_nice_have_missing and parse_cv_with_llm have no try around the
\* call, so the exception reaches the retry loop
FnRaisesOnRemoteError == kind # "must"

Malformations == {"bad_json", "missing_key"}

\* the answer of the function to a malformed model response:
\*   must, bad_json:     except json.JSONDecodeError -> (False, "Erreur parsing")
\*   must, missing_key:  result.get("decision", "ELIMINE") -> (False,
\*                       "Reponse LLM invalide")
\*   nice, bad_json:     _safe_json_parse returns [], not a dict ->
\*                       return nice_have_list
\*   nice, missing_key:  result.get("nice_have_manquants", []) -> []
\*   parse, bad_json:    raise ValueError (handled by the retry loop)
FnOnMalformed(m) ==
    CASE kind = "must" /\ m = "bad_json" ->
            Outcome(TRUE, FALSE, "na", "erreur_parsing", None)
      [] kind = "must" /\ m = "missing_key" ->
            Outcome(TRUE, FALSE, "na", "invalide", None)
      [] kind = "nice" /\ m = "bad_json" ->
            Outcome(TRUE, FALSE, "all", "none", None)
      [] OTHER -> Outcome(TRUE, FALSE, "none", "none", None)

\* the remote call inside the function raised (network failure, 5xx,
\* throttling)
RemoteError(i) ==
    /\ pc[i] = "running"
    /\ executing[i]
    /\ WorkerDone(i)
    /\ inflight_api_calls' = TrackEndCalls(inflight_api_calls)
    /\ IF FnRaisesOnRemoteError
       THEN AfterAttemptFailed(i, Err("error", attempt[i] + 1))
       ELSE Finish(i, Outcome(TRUE, FALSE, "na", "erreur_llm", None))
    /\ UNCHANGED <<tline, bonus, match, gate, cfg, bpc, lim, peak_inflight, wait, completed,
                   progress, results, accepted, rejected, success_count,
                   failed_count, ret, other>>

\* the remote call returned a response that is not valid JSON or lacks a
\* key the function reads.  CV(cv=filename, **parsed_data) has a default
\* for every key of the model's answer, so parse has no missing_key case
Malformed(i, m) ==
    /\ pc[i] = "running"
    /\ executing[i]
    /\ WorkerDone(i)
    /\ kind = "parse" => m = "bad_json"
    /\ inflight_api_calls' = TrackEndCalls(inflight_api_calls)
    /\ IF kind = "parse"
       THEN AfterAttemptFailed(i, Err("error", attempt[i] + 1))
       ELSE Finish(i, FnOnMalformed(m))
    /\ UNCHANGED <<tline, bonus, match, gate, cfg, bpc, lim, peak_inflight, wait, completed,
                   progress, results, accepted, rejected, success_count,
                   failed_count, ret, other>>

\* asyncio.sleep(delay + jitter) is over: delay *= 2, next attempt
BackoffWake(i) ==
    /\ pc[i] = "backoff"
    /\ delay' = [delay EXCEPT ![i] = NextDelay(@)]
    /\ attempt' = [attempt EXCEPT ![i] = @ + 1]
    /\ sleep_d' = [sleep_d EXCEPT ![i] = 0]
    /\ pc' = [pc EXCEPT ![i] = "acquire"]
    /\ UNCHANGED <<tline, bonus, match, gate, exe, cfg, bpc, sem, lim, trk, last_err, wait, outcome,
                   coll, other>>

\* the function of an abandoned call returns at last; its thread takes the
\* next waiting call
AbandonedCallEnds ==
    /\ abandoned > 0
    /\ abandoned' = abandoned - 1
    /\ IF work_queue # <<>>
       THEN /\ executing' = [executing EXCEPT ![Head(work_queue)] = TRUE]
            /\ work_queue' = Tail(work_queue)
       ELSE UNCHANGED <<executing, work_queue>>
    /\ UNCHANGED <<tline, bonus, match, gate, cfg, bpc, sem, lim, trk, task, coll, other>>

\* -------------------------------------------------------- collection loop
\* variant: the increment is missing
NextCompleted_NoIncrement(c) == c

\* completed += 1
NextCompleted(c) == c + 1

\* variant: failed results are not counted
FailedIncrement_Dropped(o) == 0

\* if result.success: success_count += 1 / else: failed_count += 1
FailedIncrement(o) == IF o.success THEN 0 ELSE 1

\* (accepted if ok else rejected).append(cv)
GoesToAccepted(o) == o.accepted

\* one turn of `for fut in asyncio.as_completed(tasks)`
Collect ==
    /\ bpc = "running"
    /\ done_queue # <<>>
    /\ LET i == Head(done_queue)
           o == outcome[i]
       IN  /\ done_queue' = Tail(done_queue)
           /\ pc' = [pc EXCEPT ![i] = "collected"]
           /\ completed' = NextCompleted(completed)
           /\ progress' = Append(progress, <<NextCompleted(completed), n>>)
           /\ results' = Append(results, i)
           /\ IF kind = "parse"
              THEN /\ success_count' = success_count + (IF o.success THEN 1 ELSE 0)
                   /\ failed_count' = failed_count + FailedIncrement(o)
                   /\ UNCHANGED <<accepted, rejected>>
              ELSE IF kind = "must"
              THEN /\ accepted' = IF GoesToAccepted(o) THEN Append(accepted, i)
                                  ELSE accepted
                   /\ rejected' = IF GoesToAccepted(o) THEN rejected
                                  ELSE Append(rejected, i)
                   /\ UNCHANGED <<success_count, failed_count>>
              ELSE UNCHANGED <<accepted, rejected, success_count,
                               failed_count>>
    /\ UNCHANGED <<tline, bonus, match, gate, exe, cfg, bpc, sem, lim, trk, attempt, delay, last_err, sleep_d,
                   wait, outcome, ret, other>>

\* the loop is over: peak = get_peak_inflight(), return
Return ==
    /\ bpc = "running"
    /\ completed >= n
    /\ done_queue = <<>>
    /\ \A i \in Items : pc[i] = "collected"
    \* leaving `with ThreadPoolExecutor(...)` is executor.shutdown(wait=True)
    /\ abandoned = 0
    /\ ret' = [kind |-> kind, total |-> n, success_count |-> success_count,
               failed_count |-> failed_count, results |-> results,
               accepted |-> accepted, rejected |-> rejected,
               peak |-> peak_inflight]
    /\ bpc' = "returned"
    /\ UNCHANGED <<tline, bonus, match, gate, exe, cfg, sem, lim, trk, task, done_queue, completed, progress,
                   results, accepted, rejected, success_count, failed_count,
                   other>>

\* ------------------------------------ a concurrent batch of the same kind
\* another call of the same batch function in this process (the API runs
\* parse_cvs_parallel_sync through asyncio.to_thread): it works on the
\* same module globals
OtherReset ==
    /\ ob_pc = "idle"
    /\ ob_pc' = "running"
    /\ inflight_api_calls' = 0
    /\ peak_inflight' = 0
    /\ UNCHANGED <<tline, bonus, match, gate, exe, cfg, bpc, sem, lim, task, coll, ob_calls>>

OtherTrackStart ==
    /\ ob_pc = "running"
    /\ ob_calls < Permits
    /\ ob_calls' = ob_calls + 1
    /\ inflight_api_calls' = TrackStartCalls(inflight_api_calls)
    /\ peak_inflight' = TrackPeak(TrackStartCalls(inflight_api_calls),
                                  peak_inflight)
    /\ UNCHANGED <<tline, bonus, match, gate, exe, cfg, bpc, sem, lim, task, coll, ob_pc>>

OtherTrackEnd ==
    /\ ob_pc = "running"
    /\ ob_calls > 0
    /\ ob_calls' = ob_calls - 1
    /\ inflight_api_calls' = TrackEndCalls(inflight_api_calls)
    /\ UNCHANGED <<tline, bonus, match, gate, exe, cfg, bpc, sem, lim, peak_inflight, task, coll, ob_pc>>

OtherReturn ==
    /\ ob_pc = "running"
    /\ ob_calls = 0
    /\ ob_pc' = "returned"
    /\ UNCHANGED <<tline, bonus, match, gate, exe, cfg, bpc, sem, lim, trk, task, coll, ob_calls>>

OtherStep == OtherReset \/ OtherTrackStart \/ OtherTrackEnd \/ OtherReturn

\* --------------------------------------------------------- specifications
Next ==
    \/ Start
    \/ \E i \in Items : SemAcquire(i)
    \/ \E i \in Items : LimEnter(i)
    \/ \E i \in Items : LimWake(i)
    \/ Tick
    \/ \E i \in Items : ExtractOk(i)
    \/ \E i \in Items : ExtractFail(i)
    \/ \E i \in Items : CallOk(i)
    \/ \E i \in Items : CallInvalid(i)
    \/ \E i \in Items : CallTimeout(i)
    \/ \E i \in Items : CallFail(i)
    \/ \E i \in Items : RemoteError(i)
    \/ \E i \in Items, m \in Malformations : Malformed(i, m)
    \/ \E i \in Items : BackoffWake(i)
    \/ AbandonedCallEnds
    \/ Collect
    \/ Return

\* one batch alone in the process
Spec == Init /\ [][Next]_vars

NextTwo ==
    \/ Next
    \/ OtherReset
    \/ OtherTrackStart
    \/ OtherTrackEnd
    \/ OtherReturn

\* two batches of the same kind in one process
InitTwo == Init /\ n = 1

SpecTwo == InitTwo /\ [][NextTwo]_vars

TypeOK ==
    /\ bpc \in {"idle", "running", "returned"}
    /\ \A i \in Items : pc[i] \in {"none", "created", "acquire", "lim_sleep",
                                   "extracting", "running",
                                   "backoff", "done", "collected"}

\* ------------------------------------------------------------ properties
Range(q) == {q[k] : k \in 1..Len(q)}

Ended(i) == pc[i] \in {"done", "collected"}

Running == {i \in Items : pc[i] = "running"}

FullRun == bpc = "returned" /\ ret.kind # "early"

\* C1: in a batch of N items run alone with concurrency C >= 1, the
\* current inflight count and the peak, also the peak read at the end of
\* the batch, are at most C in every reachable state.
C1_PeakAtMostConcurrency ==
    concurrency >= 1 =>
        /\ bpc = "running" => /\ inflight_api_calls <= concurrency
                              /\ peak_inflight <= concurrency
        /\ FullRun => ret.peak <= concurrency

\* C1 witness: more items than permits, every permit in use by a running
\* call, one of them a retry, and an item still waiting for a permit.
C1_Witness ==
    /\ bpc = "running"
    /\ concurrency >= 1
    /\ n > concurrency
    /\ inflight_api_calls = concurrency
    /\ \E i \in Items : pc[i] = "created"
    /\ \E j \in Items : pc[j] = "running" /\ attempt[j] >= 1

\* C2: an item is reported as failed only at the failure of its attempt
\* number retries + 1 (attempts are numbered from 1 as they are made) and
\* carries the error of that attempt; attempts are made one after the
\* other, each after a backoff sleep, and never more than retries + 1; and an item that has ended, with a success or a failure, is
\* never attempted again and keeps its outcome.
C2_ExactAttempts ==
    /\ [](\A i \in Items :
            /\ attempt[i] <= retries
            /\ (Ended(i) /\ ~outcome[i].success) =>
                  /\ outcome[i].err.kind # "none"
                  /\ outcome[i].err.attempt = retries + 1)
    /\ [][\A i \in Items :
            /\ (~Ended(i) /\ Ended(i)' /\ ~outcome'[i].success) =>
                  /\ pc[i] \in {"running", "extracting"}
                  /\ attempt[i] + 1 = retries + 1
            /\ attempt'[i] # attempt[i] =>
                  \/ attempt'[i] = attempt[i] + 1 /\ pc[i] = "backoff"
                  \/ Ended(i)'
            /\ Ended(i) => Ended(i)' /\ outcome'[i] = outcome[i]]_vars

\* C2 witness: an item failed after three attempts.
C2_Witness ==
    \E i \in Items : /\ Ended(i)
                     /\ ~outcome[i].success
                     /\ retries = 2
                     /\ outcome[i].err.attempt = 3

\* C3: two consecutive grants of the shared RateLimiter are at least
\* min_interval apart, and at most one worker is inside the grant decision.
C3_MinIntervalBetweenGrants ==
    /\ grants >= 2 => last_gap >= min_interval
    /\ Cardinality({i \in Items : pc[i] = "lim_sleep"}) <= 1

\* C3 witness: two different workers hold grants of the shared limiter, the
\* later grant a full min_interval after the earlier one.
C3_Witness ==
    /\ grants >= 2
    /\ min_interval >= 2
    /\ last_gap = min_interval
    /\ \E i, j \in Items : /\ i # j
                           /\ pc[i] \in {"running", "extracting"}
                           /\ pc[j] \in {"running", "extracting"}

\* C4: a batch that has returned accounts for every item exactly once,
\* whatever failed: parse returns N results with success_count +
\* failed_count = total = N and success_count = the number of successful
\* items (0 when all failed); must returns accepted and rejected lists that
\* partition the N items.
C4_EveryItemAccounted ==
    bpc = "returned" =>
        /\ kind = "parse" =>
              /\ Len(ret.results) = n
              /\ Range(ret.results) = Items
              /\ ret.total = n
              /\ ret.success_count + ret.failed_count = n
              /\ ret.success_count =
                    Cardinality({i \in Items : outcome[i].success})
        /\ kind = "must" =>
              /\ Len(ret.accepted) + Len(ret.rejected) = n
              /\ Range(ret.accepted) \cup Range(ret.rejected) = Items
              /\ Range(ret.accepted) \cap Range(ret.rejected) = {}

\* C4 witness: a batch of at least two items returned after every item
\* failed.
C4_Witness ==
    /\ FullRun
    /\ n >= 2
    /\ kind \in {"parse", "must"}
    /\ \A i \in Items : ~outcome[i].success
    /\ kind = "parse" => ret.success_count = 0 /\ ret.failed_count = n

HoldsPermit(i) ==
    pc[i] \in {"acquire", "lim_sleep", "extracting", "running", "backoff"}

HasToken(i) == pc[i] \in {"extracting", "running"}

\* C7 as claimed: in every attempt the rate-limit token comes before the
\* permit, so an item that holds a permit holds the token of its current
\* attempt; and a running call has marked its start, so the inflight count
\* covers the running calls.
C7_TokenThenPermit ==
    concurrency >= 1 =>
        /\ \A i \in Items : HoldsPermit(i) => HasToken(i)
        /\ bpc = "running" => inflight_api_calls >= Cardinality(Running)

\* C8 as claimed: while an item sleeps between two attempts, fewer than C
\* calls are running and an item has not started, an item that has not
\* started can take a permit.
C8_SleepBlocksNoOne ==
    ( /\ concurrency >= 1
      /\ \E i \in Items : pc[i] = "backoff"
      /\ Cardinality(Running) < concurrency
      /\ \E j \in Items : pc[j] = "created" )
    => \E j \in Items : pc[j] = "created" /\ ENABLED SemAcquire(j)

\* C9 as claimed: while a batch runs, no reset, start or end performed by
\* another batch of the same kind changes the current or peak value this
\* batch reads.
C9_CountersPerBatch ==
    [][(bpc = "running" /\ OtherStep) =>
           /\ inflight_api_calls' = inflight_api_calls
           /\ peak_inflight' = peak_inflight]_vars

\* C10: in must-have filtering an item that failed retries + 1 attempts is
\* reported with accepted = false and a rationale that records the
\* failure, and is collected into rejected, never into accepted.
C10_ExhaustedIsRejected ==
    kind = "must" =>
        \A i \in Items : (Ended(i) /\ ~outcome[i].success) =>
            /\ ~outcome[i].accepted
            /\ outcome[i].rationale = "ERREUR"
            /\ outcome[i].err.attempt = retries + 1
            /\ pc[i] = "collected" => /\ i \in Range(rejected)
                                      /\ i \notin Range(accepted)

\* C10 witness: a must-have item collected after two failed attempts while
\* another item was accepted.
C10_Witness ==
    /\ kind = "must"
    /\ retries = 1
    /\ \E i, j \in Items : /\ pc[i] = "collected"
                           /\ ~outcome[i].success
                           /\ outcome[i].err.attempt = 2
                           /\ j \in Range(accepted)

\* ------------------------- the semaphore and the worker pool, by head count
\* The same batch function as above for batches of more than a hundred
\* items: the item tasks are counted instead of being told apart, and only
\* their way through `async with sem` is kept.

\* requested concurrency values around the floor and the ceiling of the
\* pool, and batch sizes below and above the ceiling
GateConcurrency == {0, 1, 4, 5, 128, 129}
GateItems == {0, 3, 130}

\* sem = asyncio.Semaphore(max(1, concurrency))
GatePermits(c) == Max(1, c)

\* the batch engine at rest, for the specifications of the other parts
BatchIdle ==
    /\ BatchInit
    /\ kind = "must"
    /\ n = 0
    /\ concurrency = 0
    /\ retries = 0
    /\ min_interval = 1
    /\ ~criteria_empty
    /\ inflight_api_calls = 0
    /\ peak_inflight = 0

InitGate ==
    /\ BatchIdle
    /\ BonusIdle
    /\ MatchIdle
    /\ TimelineIdle
    /\ gpc = "idle"
    /\ pool_items \in GateItems
    /\ pool_concurrency \in GateConcurrency
    /\ max_workers = 0
    /\ pool_sem = 0
    /\ pool_waiting = 0
    /\ pool_inside = 0

\* the batch function up to the creation of the tasks
GateStart ==
    /\ gpc = "idle"
    /\ gpc' = "running"
    /\ max_workers' = MaxWorkers(pool_concurrency)
    /\ pool_sem' = GatePermits(pool_concurrency)
    /\ pool_waiting' = pool_items
    /\ UNCHANGED <<tline, bonus, batch, match, pool_items, pool_concurrency, pool_inside>>

\* one(): a task enters `async with sem`
GateEnter ==
    /\ gpc = "running"
    /\ pool_waiting > 0
    /\ pool_sem > 0
    /\ pool_sem' = pool_sem - 1
    /\ pool_waiting' = pool_waiting - 1
    /\ pool_inside' = pool_inside + 1
    /\ UNCHANGED <<tline, bonus, batch, match, gpc, pool_items, pool_concurrency,
                   max_workers>>

\* one(): a task leaves `async with sem` with its result
GateLeave ==
    /\ gpc = "running"
    /\ pool_inside > 0
    /\ pool_inside' = pool_inside - 1
    /\ pool_sem' = pool_sem + 1
    /\ UNCHANGED <<tline, bonus, batch, match, gpc, pool_items, pool_concurrency,
                   max_workers, pool_waiting>>

\* every task has been collected
GateReturn ==
    /\ gpc = "running"
    /\ pool_waiting = 0
    /\ pool_inside = 0
    /\ gpc' = "returned"
    /\ UNCHANGED <<tline, bonus, batch, match, pool_items, pool_concurrency, max_workers,
                   pool_sem, pool_waiting, pool_inside>>

NextGate ==
    \/ GateStart
    \/ GateEnter
    \/ GateLeave
    \/ GateReturn

SpecGate == InitGate /\ [][NextGate]_vars

\* ------------------------------------------------- the matching pipeline
\* run_matching_stream.event_generator: must-have filtering, scoring with
\* nice-have detection, re-ranking, and the merge into the final report.
\* A candidate is the index of its CV in cvs_data (its "cv" name, which
\* lib/models.py CV requires and the offer's data model keeps unique).
\* Scores are whole numbers of tenths, the malus factor 0.95 is 19/20, and
\* products are kept exact over the common denominator FinalOne.

\* the work of one run: 2 * CVs + nice-have criteria + entries of the
\* re-ranking response (a CV weighs double, every CV multiplying the
\* orders and the answers)
MaxWork == 7

\* cosine of normalised embeddings, in tenths: cv_matrix @ job_vec.T is
\* not clamped, so it ranges over [-1, 1]
Sims == {-2, 8}

\* coefficient_qualite_experience as the model may answer it, in tenths
Coefs == {10, 14, 20}

\* top_n_rerank: Query(default=10, ge=1, le=50)
TopNs == {1, 10}

RECURSIVE Pow(_, _)
Pow(b, e) == IF e = 0 THEN 1 ELSE b * Pow(b, e - 1)

One == 10
BonusOne == Pow(20, nice_have)
FinalOne == One * BonusOne * One

Clamp(x, lo, hi) == Max(lo, Min(hi, x))

Cands == 1..Len(sims)

SeqsUpTo(S, k) == UNION {[1..m -> S] : m \in 1..k}

\* the lists without repetition over S, the empty one included
Orderings(S) ==
    {<<>>} \cup {q \in SeqsUpTo(S, Cardinality(S)) :
                    \A a, b \in 1..Len(q) : a # b => q[a] # q[b]}

InitMatch ==
    /\ BatchIdle
    /\ BonusIdle
    /\ GateIdle
    /\ TimelineIdle
    /\ mpc = "loaded"
    /\ \E nc \in 0..MaxWork : sims \in [1..nc -> Sims]
    /\ nice_have \in 0..3
    /\ 2 * Len(sims) + nice_have < MaxWork
    /\ top_n_rerank \in TopNs
    /\ filtered_cvs = <<>>
    /\ nice_have_map = <<>>
    /\ scored_cvs = <<>>
    /\ reranked_cvs = <<>>
    /\ summary = <<>>
    /\ built = NoRet

\* bonus_factor ** nombre_manquants if nombre_manquants > 0 else 1.0, over
\* the denominator BonusOne
Bonus(m) == IF m > 0 THEN Pow(19, m) * Pow(20, nice_have - m) ELSE BonusOne

\* sorted(..., key=lambda x: x["score_final"], reverse=True) and
\* list.sort(key=..., reverse=True): descending and stable
RECURSIVE InsertDesc(_, _)
InsertDesc(x, q) ==
    IF q = <<>> THEN <<x>>
    ELSE IF Head(q).score_final >= x.score_final
         THEN <<Head(q)>> \o InsertDesc(x, Tail(q))
         ELSE <<x>> \o q

RECURSIVE SortedDesc(_)
SortedDesc(q) ==
    IF q = <<>> THEN <<>>
    ELSE InsertDesc(q[Len(q)], SortedDesc(SubSeq(q, 1, Len(q) - 1)))

\* step 1: filter_cvs_by_must_have(use_parallel=True) returns the list
\* `accepted` of the parallel filter, which is filled in the order the
\* item tasks complete; an empty list ends the run with an empty report
MustHaveFilter ==
    /\ mpc = "loaded"
    /\ \E q \in Orderings(Cands) :
          /\ filtered_cvs' = q
          /\ mpc' = IF q = <<>> THEN "done" ELSE "filtered"
    /\ UNCHANGED <<tline, bonus, batch, gate, sims, nice_have, top_n_rerank, nice_have_map,
                   scored_cvs, reranked_cvs, summary, built>>

\* variant: an item that failed every attempt gets the empty list
ExhaustedManquants_None == Len(<<>>)

\* _find_nice_have_missing_one after retries + 1 failed attempts:
\* return cv, nice_have_list, last_err
ExhaustedManquants == nice_have

\* what find_nice_have_missing_parallel records for one CV: the number of
\* criteria the model reported missing, or the whole list for an item
\* that exhausted its retries; without criteria the detection is skipped
\* and nice_have_map.get(cv_id, []) is empty
NiceOutcomes ==
    {[manquants |-> m, exhausted |-> FALSE] : m \in 0..nice_have}
    \cup (IF nice_have > 0
          THEN {[manquants |-> ExhaustedManquants, exhausted |-> TRUE]}
          ELSE {})

\* one entry of `scores`: score_final = sim_base * bonus, clamped
ScoreOf(c, nm) ==
    LET m == nm[c].manquants
    IN  [cv |-> c,
         score_base |-> sims[c],
         score_final |-> Clamp(sims[c] * Bonus(m) * One, 0, FinalOne),
         bonus |-> Bonus(m),
         nombre_manquants |-> m]

\* step 2: compute_similarity_with_scoring
Scoring ==
    /\ mpc = "filtered"
    /\ \E nm \in [Range(filtered_cvs) -> NiceOutcomes] :
          /\ nice_have_map' = nm
          /\ scored_cvs' = SortedDesc([k \in 1..Len(filtered_cvs) |->
                                          ScoreOf(filtered_cvs[k], nm)])
    /\ mpc' = "scored"
    /\ UNCHANGED <<tline, bonus, batch, gate, sims, nice_have, top_n_rerank, filtered_cvs,
                   reranked_cvs, summary, built>>

\* variant: the whole scored list is handed to the re-ranking step
top_n_All == Len(scored_cvs)

\* top_n = min(top_n_rerank, len(scored_cvs))
top_n == Min(top_n_rerank, Len(scored_cvs))

\* cvs_to_rerank = top_cvs[:top_n]
cvs_to_rerank == SubSeq(scored_cvs, 1, top_n)

\* variant: the fallback rewards the candidates with the top coefficient 1.4
FallbackCoefficient_Boost == One + 4

\* "coefficient_qualite_experience": 1.0 in fallback_results
FallbackCoefficient == 10

\* rerank_with_llm, except Exception: the submitted CVs sorted by
\* score_final, neutral coefficient, comments that report the failure
Fallback ==
    LET q == SortedDesc(cvs_to_rerank)
    IN  [k \in 1..Len(q) |-> [cv |-> q[k].cv,
                              coef |-> FallbackCoefficient,
                              degraded |-> TRUE]]

\* the names an entry of ranked_cvs can carry: a loaded CV, or 0 for a
\* name that no CV has (a missing "cv" key reads "inconnu")
Names == 0..Len(sims)

\* _rerank_with_openai: one enriched entry per entry of ranked_cvs, in the
\* order of the response; a missing coefficient reads 1.0
Enriched(resp) ==
    [k \in 1..Len(resp) |-> [cv |-> resp[k].cv,
                             coef |-> resp[k].coef,
                             degraded |-> FALSE]]

\* step 3, the call raised or its response has no usable ranked_cvs
RerankFails ==
    /\ mpc = "scored"
    /\ reranked_cvs' = Fallback
    /\ mpc' = "reranked"
    /\ UNCHANGED <<tline, bonus, batch, gate, sims, nice_have, top_n_rerank, filtered_cvs,
                   nice_have_map, scored_cvs, summary, built>>

\* the longest response drawn: one entry more than there are CVs, within
\* the work of the run
MaxEntries == Min(Len(sims) + 1, MaxWork - 2 * Len(sims) - nice_have)

\* step 3, the model answered a non-empty list of entries
RerankAnswers ==
    /\ mpc = "scored"
    /\ \E resp \in SeqsUpTo([cv : Names, coef : Coefs], MaxEntries) :
          reranked_cvs' = Enriched(resp)
    /\ mpc' = "reranked"
    /\ UNCHANGED <<tline, bonus, batch, gate, sims, nice_have, top_n_rerank, filtered_cvs,
                   nice_have_map, scored_cvs, summary, built>>

\* original_data = scored_map.get(cv_name, {}) with the defaults the
\* router reads from it
Original(name) ==
    IF \E k \in 1..Len(scored_cvs) : scored_cvs[k].cv = name
    THEN scored_cvs[CHOOSE k \in 1..Len(scored_cvs) : scored_cvs[k].cv = name]
    ELSE [cv |-> name, score_base |-> 0, score_final |-> 0,
          bonus |-> BonusOne, nombre_manquants |-> 0]

\* variant: the coefficient is left out of the product
MergeFinal_NoCoef(sb, b, co) == Clamp(sb * b * One, 0, FinalOne)

\* score_final_with_coef = max(0.0, min(1.0, score_base * bonus_nice_have
\*                                          * coefficient_experience))
MergeFinal(sb, b, co) == Clamp(sb * b * co, 0, FinalOne)

\* results.append({...}) for one entry of reranked_cvs
Merged(r) ==
    LET o == Original(r.cv)
    IN  [cv |-> r.cv,
         score_final |-> MergeFinal(o.score_base, o.bonus, r.coef),
         score_base |-> o.score_base,
         bonus |-> o.bonus,
         nombre_manquants |-> o.nombre_manquants,
         coef |-> r.coef,
         degraded |-> r.degraded]

\* the merge of reranked_cvs with scored_cvs and results.sort(...)
Merge ==
    /\ mpc = "reranked"
    /\ summary' = SortedDesc([k \in 1..Len(reranked_cvs) |->
                                Merged(reranked_cvs[k])])
    /\ mpc' = "done"
    /\ UNCHANGED <<tline, bonus, batch, gate, sims, nice_have, top_n_rerank, filtered_cvs,
                   nice_have_map, scored_cvs, reranked_cvs, built>>

\* lib/matching_core.py, the pure scoring functions
calculate_nice_have_malus(m) ==
    IF m <= 0 THEN BonusOne
    ELSE Clamp(Pow(19, m) * Pow(20, nice_have - m), 0, BonusOne)

validate_coefficient_experience(co) == Clamp(co, 10, 14)

calculate_final_score(sb, b, co) == Clamp(sb * b * co, 0, FinalOne)

build_matching_result(c, m, co) ==
    [cv |-> c,
     score_final |-> calculate_final_score(
                         sims[c], calculate_nice_have_malus(m),
                         validate_coefficient_experience(co)),
     score_base |-> sims[c],
     bonus |-> calculate_nice_have_malus(m),
     nombre_manquants |-> m,
     coef |-> validate_coefficient_experience(co),
     degraded |-> FALSE]

\* a caller builds the result of one CV with build_matching_result
BuildResult ==
    /\ mpc = "loaded"
    /\ \E c \in Cands, m \in 0..nice_have, co \in Coefs :
          built' = build_matching_result(c, m, co)
    /\ mpc' = "built"
    /\ UNCHANGED <<tline, bonus, batch, gate, sims, nice_have, top_n_rerank, filtered_cvs,
                   nice_have_map, scored_cvs, reranked_cvs, summary>>

NextMatch ==
    \/ MustHaveFilter
    \/ Scoring
    \/ RerankFails
    \/ RerankAnswers
    \/ Merge
    \/ BuildResult

SpecMatch == InitMatch /\ [][NextMatch]_vars

\* ------------------------------------------------- experience timeline
\* lib/experience_analyzer.py: detect_gaps_and_overlaps over the
\* experiences of one CV.
\*
\* the size of a timeline: an entry weighs 2, plus 1 for each of its two
\* date texts outside BaseTexts and 1 for an employer other than the first
MaxTimeline == 6

\* a date text, by the format parse_date recognises in it
Ym(y, m) == [fmt |-> "yyyy-mm", y |-> y, m |-> m]
My(m, y) == [fmt |-> "mm/yyyy", y |-> y, m |-> m]
YearOnly(y) == [fmt |-> "yyyy", y |-> y, m |-> 0]
Present == [fmt |-> "present", y |-> 0, m |-> 0]
FreeText == [fmt |-> "text", y |-> 0, m |-> 0]
Empty == [fmt |-> "empty", y |-> 0, m |-> 0]

BaseTexts == {Ym(2019, 1), Ym(2019, 6), Ym(2019, 10)}
DateTexts ==
    BaseTexts \cup {Ym(2020, 2), Ym(2019, 13), My(8, 2019), YearOnly(2020),
                    YearOnly(0), Present, FreeText, Empty}

Companies == {"Acme", "acme", "Beta"}

\* str.lower() on the employer labels
Lower(s) == IF s = "Acme" THEN "acme" ELSE IF s = "Beta" THEN "beta" ELSE s

TimelineEntries ==
    [date_debut : DateTexts, date_fin : DateTexts, entreprise : Companies]

Weight(e) ==
    2 + (IF e.date_debut \in BaseTexts THEN 0 ELSE 1)
      + (IF e.date_fin \in BaseTexts THEN 0 ELSE 1)
      + (IF e.entreprise = "Acme" THEN 0 ELSE 1)

EntriesUpTo(w) == {e \in TimelineEntries : Weight(e) <= w}

\* datetime.now() during an analysis: a day of October 2019, at a time of
\* day after midnight; t orders the instants within the day (0 = midnight)
NowYear == 2019
NowMonth == 10
NowDays == {10, 20}

\* two calls of datetime.now() read the same microsecond or a later one
Clocks == {"same", "advancing"}

NoDate == [kind |-> "none"]
ValueError == [kind |-> "ValueError"]
Date(y, m, d, t) == [kind |-> "date", y |-> y, m |-> m, d |-> d, t |-> t]

\* datetime.MINYEAR
MINYEAR == 1

\* parse_date(date_str); k is the instant datetime.now() would return
parse_date(s, nd, k) ==
    IF s.fmt = "empty" THEN NoDate
    ELSE IF s.fmt = "present" THEN Date(NowYear, NowMonth, nd, k)
    ELSE IF s.fmt \in {"mm/yyyy", "yyyy-mm"}
         THEN IF 1 <= s.m /\ s.m <= 12 /\ 1900 <= s.y /\ s.y <= 2100
              THEN Date(s.y, s.m, 1, 0)
              ELSE NoDate
    ELSE IF s.fmt = "yyyy"
         THEN IF s.y >= MINYEAR THEN Date(s.y, 1, 1, 0) ELSE ValueError
    ELSE NoDate

\* the instant of the j-th call of parse_date (j = 1 for date_debut, 2 for
\* date_fin) for the i-th entry
NowInstant(ck, i, j) == IF ck = "same" THEN 1 ELSE 2 * (i - 1) + j

\* the dict appended to parsed_exps for entry i, before the test
\* `if date_debut and date_fin`
ParsedEntry(exps, nd, ck, i) ==
    [index |-> i - 1,
     entreprise |-> exps[i].entreprise,
     date_debut |-> parse_date(exps[i].date_debut, nd, NowInstant(ck, i, 1)),
     date_fin |-> parse_date(exps[i].date_fin, nd, NowInstant(ck, i, 2))]

\* parse_date raises for an entry of the list
ParseRaises(exps) ==
    \E i \in 1..Len(exps) :
        \/ parse_date(exps[i].date_debut, 1, 1) = ValueError
        \/ parse_date(exps[i].date_fin, 1, 1) = ValueError

BothParsed(r) == r.date_debut.kind = "date" /\ r.date_fin.kind = "date"

\* parsed_exps after the first loop
ParsedExps(exps, nd, ck) ==
    SelectSeq([i \in 1..Len(exps) |-> ParsedEntry(exps, nd, ck, i)],
              BothParsed)

\* datetime < datetime
DateLess(a, b) ==
    \/ a.y < b.y
    \/ a.y = b.y /\ a.m < b.m
    \/ a.y = b.y /\ a.m = b.m /\ a.d < b.d
    \/ a.y = b.y /\ a.m = b.m /\ a.d = b.d /\ a.t < b.t

IsLeap(y) == y % 4 = 0 /\ (y % 100 # 0 \/ y % 400 = 0)

DaysInMonth(y, m) ==
    IF m = 2 THEN (IF IsLeap(y) THEN 29 ELSE 28)
    ELSE IF m \in {4, 6, 9, 11} THEN 30 ELSE 31

RECURSIVE DaysBeforeMonth(_, _)
DaysBeforeMonth(y, m) ==
    IF m <= 1 THEN 0 ELSE DaysBeforeMonth(y, m - 1) + DaysInMonth(y, m - 1)

\* date.toordinal()
Ordinal(a) ==
    LET p == a.y - 1
    IN  p * 365 + p \div 4 - p \div 100 + p \div 400
        + DaysBeforeMonth(a.y, a.m) + a.d

\* (a - b).days: the timedelta is normalised with a time part in [0, 1 day)
TimedeltaDays(a, b) ==
    IF a.t >= b.t THEN Ordinal(a) - Ordinal(b)
    ELSE Ordinal(a) - Ordinal(b) - 1

Abs(x) == IF x < 0 THEN -x ELSE x

\* days_between(date1, date2)
days_between(date1, date2) == Abs(TimedeltaDays(date2, date1))

\* dt + relativedelta(months=k): the month moves, the day is cut to the
\* length of the month reached
AddMonths(a, k) ==
    LET mm == (a.y * 12 + (a.m - 1)) + k
        y == mm \div 12
        m == (mm % 12) + 1
    IN  Date(y, m, Min(a.d, DaysInMonth(y, m)), a.t)

\* relativedelta(dt1, dt2): the months of the year/month difference, moved
\* towards zero while dt2 + months overshoots dt1
RECURSIVE AdjustMonths(_, _, _)
AdjustMonths(dt1, dt2, months) ==
    IF DateLess(dt1, dt2)
    THEN IF DateLess(AddMonths(dt2, months), dt1)
         THEN AdjustMonths(dt1, dt2, months + 1)
         ELSE months
    ELSE IF DateLess(dt1, AddMonths(dt2, months))
         THEN AdjustMonths(dt1, dt2, months - 1)
         ELSE months

Sign(x) == IF x < 0 THEN -1 ELSE 1

\* months_between(date1, date2): delta = relativedelta(date2, date1);
\* abs(delta.years * 12 + delta.months)
months_between(date1, date2) ==
    LET months == AdjustMonths(date2, date1,
                               (date2.y - date1.y) * 12 + (date2.m - date1.m))
        s == Sign(months)
        years == s * ((months * s) \div 12)
        rest == s * ((months * s) % 12)
    IN  Abs(years * 12 + rest)

\* parsed_exps.sort(key=date_fin, reverse=True): a stable sort, equal end
\* dates keep the order they had in parsed_exps
RECURSIVE InsertByEnd(_, _)
InsertByEnd(q, r) ==
    IF q = <<>> THEN <<r>>
    ELSE IF DateLess(Head(q).date_fin, r.date_fin)
         THEN <<r>> \o q
         ELSE <<Head(q)>> \o InsertByEnd(Tail(q), r)

RECURSIVE SortByEnd(_)
SortByEnd(q) ==
    IF q = <<>> THEN <<>>
    ELSE InsertByEnd(SortByEnd(SubSeq(q, 1, Len(q) - 1)), q[Len(q)])

YearMonth(a) == <<a.y, a.m>>

\* variant: a gap needs more than three months
GapReached_Strict(gap_months) == gap_months > 3

\* if gap_months >= 3
GapReached(gap_months) == gap_months >= 3

\* the Gap appended for parsed_exps[i] and parsed_exps[i + 1]
GapOf(exp_current, exp_next) ==
    [period |-> <<YearMonth(exp_next.date_fin),
                  YearMonth(exp_current.date_debut)>>,
     duration_months |-> months_between(exp_next.date_fin,
                                        exp_current.date_debut),
     between |-> <<exp_next.index, exp_current.index>>,
     labels |-> <<exp_next.entreprise, exp_current.entreprise>>]

\* the first loop over the sorted list
RECURSIVE GapsFrom(_, _)
GapsFrom(q, i) ==
    IF i >= Len(q) THEN <<>>
    ELSE (IF GapReached(months_between(q[i + 1].date_fin, q[i].date_debut))
          THEN <<GapOf(q[i], q[i + 1])>>
          ELSE <<>>) \o GapsFrom(q, i + 1)

\* if exp_b['date_debut'] < exp_a['date_fin'] and
\*    exp_a['date_debut'] < exp_b['date_fin']
Intersect(exp_a, exp_b) ==
    /\ DateLess(exp_b.date_debut, exp_a.date_fin)
    /\ DateLess(exp_a.date_debut, exp_b.date_fin)

DateMax(a, b) == IF DateLess(a, b) THEN b ELSE a
DateMin(a, b) == IF DateLess(b, a) THEN b ELSE a

overlap_start(exp_a, exp_b) == DateMax(exp_a.date_debut, exp_b.date_debut)
overlap_end(exp_a, exp_b) == DateMin(exp_a.date_fin, exp_b.date_fin)

\* exp_a['entreprise'].lower() == exp_b['entreprise'].lower()
SameCompany(exp_a, exp_b) == Lower(exp_a.entreprise) = Lower(exp_b.entreprise)

\* the Overlap appended for the pair (i, j), i < j, of the sorted list
OverlapOf(exp_a, exp_b) ==
    [period |-> <<YearMonth(overlap_start(exp_a, exp_b)),
                  YearMonth(overlap_end(exp_a, exp_b))>>,
     overlap_days |-> days_between(overlap_start(exp_a, exp_b),
                                   overlap_end(exp_a, exp_b)),
     experiences |-> <<exp_a.index, exp_b.index>>,
     labels |-> <<exp_a.entreprise, exp_b.entreprise>>,
     same_company |-> SameCompany(exp_a, exp_b)]

\* if overlap_days_count > 14
OverlapEmitted(exp_a, exp_b) ==
    /\ Intersect(exp_a, exp_b)
    /\ days_between(overlap_start(exp_a, exp_b),
                    overlap_end(exp_a, exp_b)) > 14

\* the double loop: i from the first entry, j from i + 1
RECURSIVE OverlapsFrom(_, _, _)
OverlapsFrom(q, i, j) ==
    IF i > Len(q) THEN <<>>
    ELSE IF j > Len(q) THEN OverlapsFrom(q, i + 1, i + 2)
    ELSE (IF OverlapEmitted(q[i], q[j])
          THEN <<OverlapOf(q[i], q[j])>>
          ELSE <<>>) \o OverlapsFrom(q, i, j + 1)

InitTimeline ==
    /\ BatchIdle
    /\ BonusIdle
    /\ MatchIdle
    /\ GateIdle
    /\ apc = "called"
    \* a list of at most three entries whose weights add up to MaxTimeline
    \* at most
    /\ \/ experiences = <<>>
       \/ \E a \in EntriesUpTo(MaxTimeline) : experiences = <<a>>
       \/ \E a \in EntriesUpTo(MaxTimeline - 2) :
             \E b \in EntriesUpTo(MaxTimeline - Weight(a)) :
                experiences = <<a, b>>
       \/ \E a \in EntriesUpTo(MaxTimeline - 4) :
             \E b \in EntriesUpTo(MaxTimeline - Weight(a) - 2) :
                \E c \in EntriesUpTo(MaxTimeline - Weight(a) - Weight(b)) :
                   experiences = <<a, b, c>>
    /\ now_day = 1
    /\ clock = "same"
    /\ parsed_exps = <<>>
    /\ gaps = <<>>
    /\ overlaps = <<>>

UsesNow(exps) ==
    \E i \in 1..Len(exps) :
        exps[i].date_debut = Present \/ exps[i].date_fin = Present

\* the loop that fills parsed_exps; a ValueError of parse_date leaves the
\* function
ParseExperiences ==
    /\ apc = "called"
    /\ \E nd \in NowDays, ck \in Clocks :
          /\ (~UsesNow(experiences) => nd = 10 /\ ck = "same")
          /\ now_day' = nd
          /\ clock' = ck
          /\ IF ParseRaises(experiences)
             THEN /\ apc' = "raised"
                  /\ parsed_exps' = <<>>
             ELSE /\ apc' = "parsed"
                  /\ parsed_exps' = ParsedExps(experiences, nd, ck)
    /\ UNCHANGED <<batch, match, gate, bonus, experiences, gaps, overlaps>>

SortExperiences ==
    /\ apc = "parsed"
    /\ parsed_exps' = SortByEnd(parsed_exps)
    /\ apc' = "sorted"
    /\ UNCHANGED <<batch, match, gate, bonus, experiences, now_day, clock, gaps,
                   overlaps>>

DetectGaps ==
    /\ apc = "sorted"
    /\ gaps' = GapsFrom(parsed_exps, 1)
    /\ apc' = "gaps"
    /\ UNCHANGED <<batch, match, gate, bonus, experiences, now_day, clock,
                   parsed_exps, overlaps>>

DetectOverlaps ==
    /\ apc = "gaps"
    /\ overlaps' = OverlapsFrom(parsed_exps, 1, 2)
    /\ apc' = "returned"
    /\ UNCHANGED <<batch, match, gate, bonus, experiences, now_day, clock,
                   parsed_exps, gaps>>

NextTimeline ==
    \/ ParseExperiences
    \/ SortExperiences
    \/ DetectGaps
    \/ DetectOverlaps

SpecTimeline == InitTimeline /\ [][NextTimeline]_vars

\* ------------------------------------------------- nice-have multiplier
\* the multiplier as the library function and as the scoring step compute
\* it. A factor is counted in twentieths (0.95 = 19), a multiplier for n
\* missing criteria is the fraction num / den with den = 20 ^ n.
MaxMissing == 3

\* the factors a configuration file can give, in twentieths: negative,
\* zero, inside (0, 1), 1.0 and above 1.0
MalusFactors == {-20, -10, 0, 10, 18, 19, 20, 21, 30, 40}

Fraction(num, den) == [num |-> num, den |-> den]

\* 1.0
WholeOne == Fraction(1, 1)

\* calculate_nice_have_malus(nb_manquants, malus_factor)
nice_have_malus(nb_manquants, f) ==
    IF nb_manquants <= 0 THEN WholeOne
    ELSE Fraction(Clamp(Pow(f, nb_manquants), 0, Pow(20, nb_manquants)),
                  Pow(20, nb_manquants))

\* bonus_factor ** nombre_manquants if nombre_manquants > 0 else 1.0
inline_multiplier(nombre_manquants, f) ==
    IF nombre_manquants > 0
    THEN Fraction(Pow(f, nombre_manquants), Pow(20, nombre_manquants))
    ELSE WholeOne

InitBonus ==
    /\ BatchIdle
    /\ MatchIdle
    /\ GateIdle
    /\ TimelineIdle
    /\ missing_count \in 0..MaxMissing
    /\ malus_factor \in MalusFactors
    /\ malus_lib = NoRet
    /\ malus_inline = NoRet

\* lib/matching_core.py computes the multiplier
CalculateMalus ==
    /\ malus_lib = NoRet
    /\ malus_lib' = nice_have_malus(missing_count, malus_factor)
    /\ UNCHANGED <<batch, match, gate, tline, missing_count, malus_factor,
                   malus_inline>>

\* compute_similarity_with_scoring computes the multiplier of a candidate
InlineMalus ==
    /\ malus_inline = NoRet
    /\ malus_inline' = inline_multiplier(missing_count, malus_factor)
    /\ UNCHANGED <<batch, match, gate, tline, missing_count, malus_factor,
                   malus_lib>>

NextBonus ==
    \/ CalculateMalus
    \/ InlineMalus

SpecBonus == InitBonus /\ [][NextBonus]_vars

\* C17: a remote error on an attempt that has attempts left sends the item
\* to its backoff sleep and a further attempt, for the three kinds of
\* batch; only the remote error of attempt retries + 1 ends the item.
C17_TransientIsRetried ==
    [][\A i \in Items : RemoteError(i) =>
           /\ HasAttemptsLeft(i) => pc'[i] = "backoff"
           /\ Ended(i)' => attempt[i] + 1 = retries + 1]_vars

\* C18: a malformed model response ends a must-have item as rejected and a
\* nice-have item with every criterion missing, both without a further
\* attempt, and sends a parse item with attempts left to a retry.
C18_MalformedHandling ==
    [][\A i \in Items, m \in Malformations : Malformed(i, m) =>
           IF kind = "parse"
           THEN HasAttemptsLeft(i) => pc'[i] = "backoff"
           ELSE /\ Ended(i)'
                /\ kind = "must" => ~outcome'[i].accepted
                /\ kind = "nice" => outcome'[i].manquants = "all"]_vars

\* C19: called with no item (and, for must-have and nice-have, with
\* criteria), a batch function returns at once with an empty result and
\* leaves the limiter, the semaphore and the inflight counters as they
\* were.
C19_EmptyBatchTouchesNothing ==
    [][(Start /\ n = 0 /\ (kind = "parse" \/ ~criteria_empty)) =>
           /\ bpc' = "returned"
           /\ ret'.kind = "early"
           /\ UNCHANGED <<sem, lim, trk>>]_vars

\* the requested parallelism clamped to the bounds of the worker pool
ClampToPool(x) == Max(4, Min(x, 128))

\* C20: the worker pool has between 4 and 128 workers, and the number of
\* item tasks inside the semaphore at one time is at most
\* min(concurrency, len(items)) clamped to those bounds.
C20_GateWithinPoolBounds ==
    gpc = "running" =>
        /\ max_workers >= 4
        /\ max_workers <= 128
        /\ pool_inside <= ClampToPool(Min(pool_concurrency, pool_items))

\* ------------------------------------------- properties of the pipeline
\* the candidates handed to the re-ranking step
Submitted == {cvs_to_rerank[k].cv : k \in 1..Len(cvs_to_rerank)}

Entries(c) == {k \in 1..Len(summary) : summary[k].cv = c}

NonIncreasing(q) ==
    \A k \in 1..(Len(q) - 1) : q[k].score_final >= q[k + 1].score_final

\* rerank_with_llm took its except branch
FellBack ==
    /\ reranked_cvs # <<>>
    /\ \A k \in 1..Len(reranked_cvs) : reranked_cvs[k].degraded

Reported == mpc = "done" /\ reranked_cvs # <<>>

C12_FallbackKeepsScores ==
    (mpc = "done" /\ FellBack) =>
        /\ Len(summary) = Len(cvs_to_rerank)
        /\ \A c \in Submitted : Cardinality(Entries(c)) = 1
        /\ NonIncreasing(summary)
        /\ \A k \in 1..Len(summary) :
              /\ summary[k].coef = 10
              /\ summary[k].degraded
              /\ summary[k].cv \in Submitted
              /\ summary[k].score_base = Original(summary[k].cv).score_base
              /\ summary[k].bonus = Original(summary[k].cv).bonus
              /\ summary[k].score_final
                     = Original(summary[k].cv).score_final

\* C12 witness: a degraded report of two candidates with different
\* scores, the first of them with a malus.
C12_Witness ==
    /\ mpc = "done"
    /\ FellBack
    /\ Len(summary) = 2
    /\ summary[1].score_final > summary[2].score_final
    /\ summary[1].bonus < BonusOne

\* C13: every submitted candidate has exactly one entry in the report,
\* whatever the re-ranking response holds, and every entry is the entry
\* of a submitted candidate.
C13_EverySubmittedOnce ==
    Reported =>
        /\ \A c \in Submitted : Cardinality(Entries(c)) = 1
        /\ \A k \in 1..Len(summary) : summary[k].cv \in Submitted

\* C14: the report is in non-increasing score_final order, and two
\* candidates with equal score_final are in the order of the input list,
\* whatever the order in which the must-have tasks completed; stated for
\* the reports that owe nothing to the order of a re-ranking response.
C14_SortedStableByInput ==
    (mpc = "done" /\ FellBack) =>
        /\ NonIncreasing(summary)
        /\ \A k, l \in 1..Len(summary) :
              (k < l /\ summary[k].score_final = summary[l].score_final)
                  => summary[k].cv < summary[l].cv

\* the product of a record's own fields, clamped last
ClampedProduct(e) == Clamp(e.score_base * e.bonus * e.coef, 0, FinalOne)

\* C15: in every record of the report, and in the record made by
\* build_matching_result, score_final is the clamped product of the
\* score_base, multiplier and coefficient of the same record.
C15_FinalIsClampedProduct ==
    /\ \A k \in 1..Len(summary) :
          summary[k].score_final = ClampedProduct(summary[k])
    /\ mpc = "built" => built.score_final = ClampedProduct(built)

\* C15 witness: a reported record whose coefficient 1.4 raised the score
\* without reaching the clamp.
C15_Witness ==
    /\ Reported
    /\ \E k \in 1..Len(summary) :
          /\ summary[k].coef = 14
          /\ summary[k].score_final < FinalOne
          /\ summary[k].score_final
                 > summary[k].score_base * summary[k].bonus * One

\* C16: every record of the report has score_base in [0, 1], multiplier
\* in (0, 1], coefficient in [1.0, 1.4] and score_final in [0, 1].
C16_FieldsInRange ==
    \A k \in 1..Len(summary) :
        /\ summary[k].score_base >= 0
        /\ summary[k].score_base <= One
        /\ summary[k].bonus > 0
        /\ summary[k].bonus <= BonusOne
        /\ summary[k].coef >= 10
        /\ summary[k].coef <= 14
        /\ summary[k].score_final >= 0
        /\ summary[k].score_final <= FinalOne

\* ------------------------------------------- timeline analysis, claims
Count(q, x) == Cardinality({k \in 1..Len(q) : q[k] = x})

\* two lists hold the same items the same number of times
SameItems(q1, q2) ==
    \A x \in Range(q1) \cup Range(q2) : Count(q1, x) = Count(q2, x)

\* the orderings of a list
Reorderings(q) ==
    {[k \in 1..Len(q) |-> q[f[k]]] :
        f \in {g \in [1..Len(q) -> 1..Len(q)] :
                  \A a, b \in 1..Len(q) : a # b => g[a] # g[b]}}

\* a Gap and an Overlap without the positions of their entries in the
\* input list, which an ordering changes by definition
GapFacts(q) ==
    [k \in 1..Len(q) |-> [period |-> q[k].period,
                          duration_months |-> q[k].duration_months,
                          labels |-> q[k].labels]]

OverlapFacts(q) ==
    [k \in 1..Len(q) |-> [period |-> q[k].period,
                          overlap_days |-> q[k].overlap_days,
                          labels |-> {q[k].labels[1], q[k].labels[2]},
                          same_company |-> q[k].same_company]]

\* detect_gaps_and_overlaps(exps).gappes and .overlaps, for the instants
\* read in the current analysis
GapsOf(exps) == GapsFrom(SortByEnd(ParsedExps(exps, now_day, clock)), 1)
OverlapsOf(exps) ==
    OverlapsFrom(SortByEnd(ParsedExps(exps, now_day, clock)), 1, 2)

\* C21: the gaps and the overlaps returned for a list of entries are the
\* gaps and the overlaps returned for every other ordering of that list.
C21_OrderIndependent ==
    apc = "returned" =>
        \A p \in Reorderings(experiences) :
            /\ SameItems(GapFacts(gaps), GapFacts(GapsOf(p)))
            /\ SameItems(OverlapFacts(overlaps), OverlapFacts(OverlapsOf(p)))

\* the longest time the dates of a timeline are apart, in months
MaxMonths == 24

\* the whole months between two instants, counted from the earlier one
MonthDistance(a, b) ==
    LET lo == DateMin(a, b)
        hi == DateMax(a, b)
    IN  Cardinality({k \in 1..MaxMonths : ~DateLess(hi, AddMonths(lo, k))})

GapsDone == apc \in {"gaps", "returned"}

\* the adjacent pairs of the sorted list that are three months apart or
\* more: i is the entry that ends later, i + 1 the one that ends earlier
GapPairs ==
    {i \in 1..(Len(parsed_exps) - 1) :
        MonthDistance(parsed_exps[i + 1].date_fin,
                      parsed_exps[i].date_debut) >= 3}

\* the timeline [2019-01 to 2019-06, 2019-10 to 2020-02]
ExampleTimeline ==
    <<[date_debut |-> Ym(2019, 1), date_fin |-> Ym(2019, 6),
       entreprise |-> "Acme"],
      [date_debut |-> Ym(2019, 10), date_fin |-> Ym(2020, 2),
       entreprise |-> "Acme"]>>

\* C22: one Gap is emitted for every adjacent pair of the sorted list whose
\* month distance (end of the entry that ends earlier, start of the other
\* one) is at least 3, with that distance as duration_months, and none for
\* another pair; the example timeline gets one Gap of 4 months.
C22_GapIffThreeMonths ==
    GapsDone =>
        /\ Len(gaps) = Cardinality(GapPairs)
        /\ \A i \in GapPairs :
              \E k \in 1..Len(gaps) :
                 /\ gaps[k].between = <<parsed_exps[i + 1].index,
                                        parsed_exps[i].index>>
                 /\ gaps[k].duration_months =
                        MonthDistance(parsed_exps[i + 1].date_fin,
                                      parsed_exps[i].date_debut)
        /\ experiences = ExampleTimeline =>
              /\ Len(gaps) = 1
              /\ gaps[1].duration_months = 4

\* C22 witness: the example timeline analysed, with its Gap of 4 months
\* from 2019-06 to 2019-10.
C22_Witness ==
    /\ apc = "returned"
    /\ experiences = ExampleTimeline
    /\ Len(gaps) = 1
    /\ gaps[1].duration_months = 4
    /\ gaps[1].period = <<<<2019, 6>>, <<2019, 10>>>>

\* the days from the start to the end of the intersection
\* [max(start_a, start_b), min(end_a, end_b)]; negative when it is empty
IntersectionSpan(exp_a, exp_b) ==
    TimedeltaDays(DateMin(exp_a.date_fin, exp_b.date_fin),
                  DateMax(exp_a.date_debut, exp_b.date_debut))

\* the employer labels are equal when case is ignored
EqualIgnoringCase(x, y) == x = y \/ {x, y} = {"Acme", "acme"}

\* the Overlaps emitted for the pair of entries at positions i and j
OverlapsOfPair(i, j) ==
    {k \in 1..Len(overlaps) :
        {overlaps[k].experiences[1], overlaps[k].experiences[2]}
            = {parsed_exps[i].index, parsed_exps[j].index}}

\* C23: for every two parsed entries, one Overlap is emitted when their
\* periods cross and the intersection spans more than 14 days, with that
\* span as overlap_days and same_company telling whether the labels are
\* equal ignoring case; no Overlap is emitted for another pair.
C23_OverlapIffSpanOver14 ==
    apc = "returned" =>
        \A i, j \in 1..Len(parsed_exps) :
            i < j =>
               LET a == parsed_exps[i]
                   b == parsed_exps[j]
               IN  IF /\ DateLess(b.date_debut, a.date_fin)
                      /\ DateLess(a.date_debut, b.date_fin)
                      /\ IntersectionSpan(a, b) > 14
                   THEN /\ Cardinality(OverlapsOfPair(i, j)) = 1
                        /\ \A k \in OverlapsOfPair(i, j) :
                              /\ overlaps[k].overlap_days
                                     = IntersectionSpan(a, b)
                              /\ overlaps[k].same_company
                                     = EqualIgnoringCase(a.entreprise,
                                                         b.entreprise)
                   ELSE OverlapsOfPair(i, j) = {}

\* the positions in the input list of the entries with both dates parsed
ParsedIndexes ==
    {i - 1 : i \in {k \in 1..Len(experiences) :
                       BothParsed(ParsedEntry(experiences, now_day, clock,
                                              k))}}

\* C24: the analysis never ends with an error, and no Gap and no Overlap
\* names an entry one of whose dates could not be parsed.
C24_UnparseableSkipped ==
    /\ apc # "raised"
    /\ \A k \in 1..Len(gaps) :
          {gaps[k].between[1], gaps[k].between[2]} \subseteq ParsedIndexes
    /\ \A k \in 1..Len(overlaps) :
          {overlaps[k].experiences[1], overlaps[k].experiences[2]}
              \subseteq ParsedIndexes

\* the parsed entry that stood at position idx of the input list
ParsedAt(idx) == CHOOSE r \in Range(parsed_exps) : r.index = idx

\* C30: a Gap is emitted only for two entries of which the one that ends
\* later starts at or after the end of the other, and no Overlap is emitted
\* for the same two entries.
C30_GapIsAHole ==
    \A k \in 1..Len(gaps) :
        LET earlier == ParsedAt(gaps[k].between[1])
            later == ParsedAt(gaps[k].between[2])
        IN  /\ ~DateLess(later.date_debut, earlier.date_fin)
            /\ \A o \in 1..Len(overlaps) :
                  {overlaps[o].experiences[1], overlaps[o].experiences[2]}
                      # {earlier.index, later.index}

\* C25: the candidates the re-ranking step works on (the fallback returns
\* every one of them) are the first min(top_n_rerank, number of scored
\* candidates) of the list sorted by score_final, and none of them has a
\* lower score_final than a candidate left out.
C25_RerankTopPrefix ==
    FellBack =>
        /\ NonIncreasing(scored_cvs)
        /\ Len(reranked_cvs) = Min(top_n_rerank, Len(scored_cvs))
        /\ {reranked_cvs[k].cv : k \in 1..Len(reranked_cvs)}
               = {scored_cvs[k].cv : k \in 1..Len(reranked_cvs)}
        /\ \A a, b \in 1..Len(scored_cvs) :
              (a <= Len(reranked_cvs) /\ b > Len(reranked_cvs))
                  => scored_cvs[a].score_final >= scored_cvs[b].score_final

\* C25 witness: two candidates scored, one handed to the re-ranking step
\* and one left out.
C25_Witness ==
    /\ FellBack
    /\ top_n_rerank = 1
    /\ Len(scored_cvs) = 2
    /\ Len(reranked_cvs) = 1

\* the multiplier the statement gives: 1.0 for no missing criterion, the
\* factor to the power of the count, clamped to [0, 1], for the others
ExpectedMultiplier ==
    IF missing_count = 0 THEN WholeOne
    ELSE Fraction(Clamp(Pow(malus_factor, missing_count), 0,
                        Pow(20, missing_count)),
                  Pow(20, missing_count))

\* C26: for every count and every factor, the library function and the
\* scoring step both give 1.0 for no missing criterion and the factor to
\* the power of the count clamped to [0, 1] otherwise; 0.95 and 3 missing
\* give 6859 / 8000 = 0.857375.
C26_MultiplierClamped ==
    /\ malus_lib # NoRet => malus_lib = ExpectedMultiplier
    /\ malus_inline # NoRet => malus_inline = ExpectedMultiplier
    /\ (malus_inline # NoRet /\ malus_factor = 19 /\ missing_count = 3)
           => malus_inline = Fraction(6859, 8000)

\* C27: in a batch run alone, for the three kinds of batch, the inflight
\* count is the number of attempts that have marked their start and not
\* yet their end; it is never negative, and it is 0 when the batch has
\* returned.
C27_InflightMatchesMarked ==
    /\ bpc = "running" => /\ inflight_api_calls = Cardinality(Running)
                          /\ inflight_api_calls >= 0
    /\ FullRun => inflight_api_calls = 0

\* C28: with a concurrency of at least 1, the calls that worker threads
\* are running, the abandoned ones included, are never more than the
\* concurrency.
C28_ExecutingAtMostConcurrency ==
    concurrency >= 1 => WorkersBusy <= concurrency

\* the steps that the event loop, its timers and the worker threads make
\* on their own; the return of an abandoned call is left to the remote side
Scheduled ==
    \/ Start
    \/ \E i \in Items : SemAcquire(i)
    \/ \E i \in Items : LimEnter(i)
    \/ \E i \in Items : LimWake(i)
    \/ Tick
    \/ \E i \in Items : ExtractOk(i)
    \/ \E i \in Items : ExtractFail(i)
    \/ \E i \in Items : CallOk(i)
    \/ \E i \in Items : CallInvalid(i)
    \/ \E i \in Items : CallTimeout(i)
    \/ \E i \in Items : CallFail(i)
    \/ \E i \in Items : RemoteError(i)
    \/ \E i \in Items, m \in Malformations : Malformed(i, m)
    \/ \E i \in Items : BackoffWake(i)
    \/ Collect
    \/ Return

\* one batch alone, with a loop and threads that keep running
SpecLive == Init /\ [][Next]_vars /\ WF_vars(Scheduled)

\* C29: every batch returns its result, whether or not an abandoned call
\* ever returns.
C29_BatchReturns == <>(bpc = "returned")

====
